---- MODULE Spec2Model ----
(***************************************************************************)
(* rusty-yunet: the Rust layer around the native YuNet face detector.      *)
(*                                                                         *)
(* The layer is src/src/lib.rs (detect_faces, Face, FaceLandmarks, the     *)
(* cxx bridge) and src/src/rect.rs (Rect).  The native detector is a black *)
(* box: what it returns is an input of the model.                          *)
(*                                                                         *)
(* Numbers keep the widths of the Rust types.  A usize is a little-endian  *)
(* sequence of 16-bit limbs (its values exceed what a single integer of    *)
(* TLC holds),         an i32 is an integer in -2^31 .. 2^31-1, and an f32 *)
(* is a record [k, s, m, e]: kind, sign, 24-bit significand and exponent,  *)
(* with value s * m * 2^e.                                                 *)
(***************************************************************************)
EXTENDS Integers, Sequences, FiniteSets, TLC

\* ------------------------------------------------------------------------
\* Bounds of the model
\* ------------------------------------------------------------------------

\* detect_faces calls kept in the history of one behaviour
MaxCalls == 2

\* raw detections the native detector returns from one call
MaxFaces == 2

\* ------------------------------------------------------------------------
\* Machine integers
\* ------------------------------------------------------------------------

\* bits of an i32 (ffi::wrapper_detect_faces takes width, height, step: i32)
I32_BITS == 32

\* bits of a usize on the 64-bit targets the crate is built for
USIZE_BITS == 64

\* bits of the significand of an f32, the hidden bit included
F32_MANTISSA_DIGITS == 24

\* a limb is half an i32, so that a product of limbs stays below 2^31
LimbBits == I32_BITS \div 2

LimbBase == 2^LimbBits

I32_MAX == (2^(I32_BITS - 2) - 1) + 2^(I32_BITS - 2)

I32_MIN == (-I32_MAX) - 1

\* the number of limbs of a usize
UsizeLimbs == USIZE_BITS \div LimbBits

\* usize values below 2^31, from the integer
Usize(n) == [i \in 1..UsizeLimbs |->
               IF i = 1 THEN n % LimbBase
               ELSE IF i = 2 THEN n \div LimbBase
               ELSE 0]

\* usize value hi * 2^32 + lo, for lo below 2^31
UsizeHiLo(hi, lo) == [i \in 1..UsizeLimbs |->
               IF i = 1 THEN lo % LimbBase
               ELSE IF i = 2 THEN lo \div LimbBase
               ELSE IF i = 3 THEN hi % LimbBase
               ELSE hi \div LimbBase]

\* bit i of an unsigned limb sequence (0 beyond its ends)
Bit(u, i) ==
    IF i < 0 \/ i >= LimbBits * Len(u) THEN 0
    ELSE (u[(i \div LimbBits) + 1] \div 2^(i % LimbBits)) % 2

\* the number of bits of a limb: 0 for 0, 16 for 2^15 and above
RECURSIVE BitLen(_)
BitLen(n) == IF n = 0 THEN 0 ELSE 1 + BitLen(n \div 2)

\* the index of the highest limb of u that is not 0, at or below i (0: none)
RECURSIVE TopLimb(_, _)
TopLimb(u, i) ==
    IF i = 0 THEN 0
    ELSE IF u[i] # 0 THEN i
    ELSE TopLimb(u, i - 1)

\* the index of the highest set bit of u, -1 when u is 0
Msb(u) ==
    LET t == TopLimb(u, Len(u))
    IN  IF t = 0 THEN -1 ELSE LimbBits * (t - 1) + BitLen(u[t]) - 1

\* what limb x, whose lowest bit has weight 2^sh, adds to a sum of units
LimbPart(x, sh) ==
    IF x = 0 \/ sh <= -LimbBits THEN 0
    ELSE IF sh >= 0 THEN x * 2^sh
    ELSE x \div 2^(-sh)

\* floor(u / 2^lo), for a quotient below 2^31
RECURSIVE FloorShiftFrom(_, _, _)
FloorShiftFrom(u, lo, i) ==
    IF i = 0 THEN 0
    ELSE LimbPart(u[i], LimbBits * (i - 1) - lo) + FloorShiftFrom(u, lo, i - 1)

FloorShift(u, lo) == FloorShiftFrom(u, lo, Len(u))

\* the value of the n bits of u from bit 0 upwards (n at most 31)
LowBits(u, n) ==
    FloorShift([i \in 1..Len(u) |->
                  IF LimbBits * i <= n THEN u[i]
                  ELSE IF LimbBits * (i - 1) >= n THEN 0
                  ELSE u[i] % 2^(n - LimbBits * (i - 1))], 0)

\* some bit of u below bit i is set
AnyBitBelow(u, i) ==
    \E j \in 1..Len(u) :
        /\ LimbBits * (j - 1) < i
        /\ IF LimbBits * j <= i THEN u[j] # 0
           ELSE u[j] % 2^(i - LimbBits * (j - 1)) # 0

\* the magnitude of an i32 as limbs (|i32::MIN| = 2^31 is no i32)
MagnitudeI32(v) ==
    IF v >= 0 THEN <<v % LimbBase, v \div LimbBase>>
    ELSE IF v = I32_MIN THEN <<0, LimbBase \div 2>>
    ELSE <<(-v) % LimbBase, (-v) \div LimbBase>>

\* the two's complement bit pattern of an i32 as limbs
BitsOfI32(v) ==
    IF v >= 0 THEN <<v % LimbBase, v \div LimbBase>>
    ELSE LET x == v - I32_MIN
         IN  <<x % LimbBase, (x \div LimbBase) + (LimbBase \div 2)>>

\* the i32 whose two's complement bit pattern is the low 32 bits of u
I32OfBits(u) ==
    LET low == LowBits(u, I32_BITS - 1)
    IN  IF Bit(u, I32_BITS - 1) = 1 THEN low + I32_MIN ELSE low

\* `u as i32` for a usize: truncation to the low 32 bits, reinterpreted
UsizeAsI32(u) == I32OfBits(u)

\* the product k * a of i32 arithmetic overflows (k a small positive literal)
MulOverflows(k, a) ==
    \/ a > I32_MAX \div k
    \/ a < -((I32_MAX \div k) + (IF I32_MAX % k = k - 1 THEN 1 ELSE 0))

\* k * a modulo 2^32, as an i32 (the result of a build without overflow checks)
WrappingMul(k, a) ==
    LET b  == BitsOfI32(a)
        p1 == k * b[1]
        p2 == k * b[2] + (p1 \div LimbBase)
    IN  I32OfBits(<<p1 % LimbBase, p2 % LimbBase>>)

\* ------------------------------------------------------------------------
\* f32: IEEE 754 binary32, round to nearest, ties to even
\* ------------------------------------------------------------------------

\* the least significand of a normal f32
MantissaMin == 2^(F32_MANTISSA_DIGITS - 1)

\* one past the greatest significand
MantissaEnd == 2^F32_MANTISSA_DIGITS

F32Zero(s) == [k |-> "num", s |-> s, m |-> 0, e |-> 0]

F32Inf(s) == [k |-> "inf", s |-> s, m |-> 0, e |-> 0]

F32NaN == [k |-> "nan", s |-> 1, m |-> 0, e |-> 0]

\* the normal f32 s * m * 2^e, for MantissaMin <= m < MantissaEnd
F32Num(s, m, e) == [k |-> "num", s |-> s, m |-> m, e |-> e]

\* a significand with one more unit in the last place, renormalised
RoundUp(s, m, e) ==
    IF m + 1 = MantissaEnd THEN F32Num(s, MantissaMin, e + 1)
    ELSE F32Num(s, m + 1, e)

\* the f32 nearest to s * u, for an unsigned limb sequence u: the integer to
\* float conversion of `as f32`
RoundToF32(s, u) ==
    LET p == Msb(u)
    IN  IF p = -1 THEN F32Zero(1)
        ELSE IF p < F32_MANTISSA_DIGITS
        THEN F32Num(s, FloorShift(u, 0) * 2^(F32_MANTISSA_DIGITS - 1 - p),
                    p - (F32_MANTISSA_DIGITS - 1))
        ELSE LET lo     == p - (F32_MANTISSA_DIGITS - 1)
                 m0     == FloorShift(u, lo)
                 guard  == Bit(u, lo - 1) = 1
                 sticky == AnyBitBelow(u, lo - 1)
             IN  IF guard /\ (sticky \/ m0 % 2 = 1)
                 THEN RoundUp(s, m0, lo)
                 ELSE F32Num(s, m0, lo)

\* `v as f32` for an i32
I32ToF32(v) == RoundToF32(IF v < 0 THEN -1 ELSE 1, MagnitudeI32(v))

\* `u as f32` for a usize
UsizeAsF32(u) == RoundToF32(1, u)

\* the binary digits a division step produces at once: a remainder below
\* 2^24 shifted by them stays below 2^31
DivStepBits == I32_BITS - 1 - F32_MANTISSA_DIGITS

\* n binary digits of the quotient r / d below the binary point, for r < d,
\* appended to q: <<the digits as a number, the remainder>>
RECURSIVE DivDigits(_, _, _, _)
DivDigits(q, r, d, n) ==
    IF n = 0 THEN <<q, r>>
    ELSE LET k == IF n < DivStepBits THEN n ELSE DivStepBits
             x == r * 2^k
         IN  DivDigits(q * 2^k + (x \div d), x % d, d, n - k)

\* a / b of f32 arithmetic
F32Div(a, b) ==
    IF a.k = "nan" \/ b.k = "nan" THEN F32NaN
    ELSE IF a.k = "inf" THEN (IF b.k = "inf" THEN F32NaN ELSE F32Inf(a.s * b.s))
    ELSE IF b.k = "inf" THEN F32Zero(a.s * b.s)
    ELSE IF b.m = 0 THEN (IF a.m = 0 THEN F32NaN ELSE F32Inf(a.s * b.s))
    ELSE IF a.m = 0 THEN F32Zero(a.s * b.s)
    ELSE LET s  == a.s * b.s
             \* the quotient of the significands lies in (1/2, 2)
             n  == IF a.m >= b.m THEN F32_MANTISSA_DIGITS - 1
                   ELSE F32_MANTISSA_DIGITS
             qr == DivDigits(a.m \div b.m, a.m % b.m, b.m, n)
             e  == a.e - b.e - n
             gr == DivDigits(0, qr[2], b.m, 1)
         IN  IF gr[1] = 1 /\ (gr[2] # 0 \/ qr[1] % 2 = 1)
             THEN RoundUp(s, qr[1], e)
             ELSE F32Num(s, qr[1], e)

\* a < b of f32 comparison (false when either is NaN)
F32Lt(a, b) ==
    IF a.k = "nan" \/ b.k = "nan" THEN FALSE
    ELSE IF a.m = 0 /\ a.k = "num" /\ b.m = 0 /\ b.k = "num" THEN FALSE
    ELSE IF a.k = "num" /\ a.m = 0 THEN b.s = 1
    ELSE IF b.k = "num" /\ b.m = 0 THEN a.s = -1
    ELSE IF a.s # b.s THEN a.s = -1
    ELSE LET below == \* |a| < |b|
                 IF a.k = "inf" THEN FALSE
                 ELSE IF b.k = "inf" THEN TRUE
                 ELSE a.e < b.e \/ (a.e = b.e /\ a.m < b.m)
             above == \* |a| > |b|
                 IF b.k = "inf" THEN FALSE
                 ELSE IF a.k = "inf" THEN TRUE
                 ELSE a.e > b.e \/ (a.e = b.e /\ a.m > b.m)
         IN  IF a.s = 1 THEN below ELSE above

\* f32::min: the lesser of the two; a NaN operand yields the other
F32Min(a, b) ==
    IF a.k = "nan" THEN b
    ELSE IF b.k = "nan" THEN a
    ELSE IF F32Lt(b, a) THEN b
    ELSE a

\* ------------------------------------------------------------------------
\* Inputs
\* ------------------------------------------------------------------------

\* the f32 nearest to 0.1, 0.2 and 0.9, and 1.5 and -0.25
F32_0_1 == F32Num(1, 13421773, -27)

F32_0_2 == F32Num(1, 13421773, -26)

F32_0_9 == F32Num(1, 15099494, -24)

F32_1_5 == F32Num(1, 3 * (MantissaMin \div 2), 1 - F32_MANTISSA_DIGITS)

F32_Neg_0_25 == F32Num(-1, MantissaMin, -(F32_MANTISSA_DIGITS + 1))

\* the indices of the landmark array [i32; 10]
LandmarkIndex == 0..9

Array10(a0, a1, a2, a3, a4, a5, a6, a7, a8, a9) ==
    [i \in LandmarkIndex |->
        CASE i = 0 -> a0 [] i = 1 -> a1 [] i = 2 -> a2 [] i = 3 -> a3
          [] i = 4 -> a4 [] i = 5 -> a5 [] i = 6 -> a6 [] i = 7 -> a7
          [] i = 8 -> a8 [] i = 9 -> a9]

\* landmark arrays: inside the image, outside of it, and beyond 2^24
LmInside == Array10(10, 20, 30, 40, 50, 60, 70, 80, 90, 100)

LmOutside == Array10(-7, 15, 230, -40, 0, 111, 1, 2, 3, 250)

LmHuge == Array10(16777217, -16777219, I32_MAX, I32_MIN, 16777216, 33554434,
                  -33554438, 2147483583, 5, -6)

\* ffi::BridgeFace
BridgeFace(score, x, y, w, h, lm) ==
    [score |-> score, x |-> x, y |-> y, w |-> w, h |-> h, lm |-> lm]

\* raw detections of the calls of Spec
SampleFace == BridgeFace(F32_0_9, 20, 10, 40, 20, LmInside)

OddFace == BridgeFace(F32_1_5, -5, 90, -3, 16777217, LmOutside)

RawFaces == {SampleFace, OddFace}

RECURSIVE SeqsUpTo(_, _)
SeqsUpTo(S, n) ==
    IF n = 0 THEN {<<>>}
    ELSE LET shorter == SeqsUpTo(S, n - 1)
         IN  shorter \cup {Append(q, x) : q \in shorter, x \in S}

\* what the native detector may return from one call
NativeResults == SeqsUpTo(RawFaces, MaxFaces)

Image(bytes, width, height) == [bytes |-> bytes, width |-> width, height |-> height]

\* the images the callers of Spec pass: 200 x 100; the least width whose
\* stride exceeds i32::MAX; width and height beyond 2^32
Images ==
    { Image("bgr_a", Usize(200), Usize(100)),
      Image("bgr_b", Usize(715827883), Usize(1)),
      Image("bgr_c", UsizeHiLo(1, 200), UsizeHiLo(1, 100)) }

\* raw detections of the single call SpecFace starts from
FaceScores == {F32_0_9, F32_1_5, F32_Neg_0_25}

FaceXs == {20, -5, 16777217}

FaceYs == {10}

FaceWs == {40, -3, I32_MAX}

FaceHs == {20, -33554434}

FaceLms == {LmInside, LmOutside, LmHuge}

BridgeFaces ==
    { BridgeFace(sc, x, y, w, h, lm) :
        sc \in FaceScores, x \in FaceXs, y \in FaceYs, w \in FaceWs,
        h \in FaceHs, lm \in FaceLms }

\* the image sizes of SpecFace: without pixels, 200 and 100, beyond 2^32
FaceWidths == {Usize(0), Usize(200), UsizeHiLo(1, 200)}

FaceHeights == {Usize(0), Usize(100), Usize(200)}

\* the integers of the raw detections above
InputInts ==
    UNION { {f.x, f.y, f.w, f.h} \cup {f.lm[i] : i \in LandmarkIndex} :
            f \in RawFaces \cup BridgeFaces }

\* `as f32` on the integers of the inputs, evaluated once
I32ToF32Memo == [v \in InputInts |-> I32ToF32(v)]

\* `v as f32` for an i32
I32AsF32(v) == IF v \in InputInts THEN I32ToF32Memo[v] ELSE I32ToF32(v)

\* ------------------------------------------------------------------------
\* rect.rs, lib.rs: the value types
\* ------------------------------------------------------------------------

\* glam::Vec2::new
Vec2(x, y) == [x |-> x, y |-> y]

\* Rect::with_size
with_size(x, y, w, h) == [x |-> x, y |-> y, w |-> w, h |-> h]

\* a slip of from_yunet_landmark_array: the eyes named from the viewer's side
landmarks_eyes_swapped(landmarks) ==
    [ right_eye   |-> Vec2(I32AsF32(landmarks[2]), I32AsF32(landmarks[3])),
      left_eye    |-> Vec2(I32AsF32(landmarks[0]), I32AsF32(landmarks[1])),
      nose        |-> Vec2(I32AsF32(landmarks[4]), I32AsF32(landmarks[5])),
      mouth_right |-> Vec2(I32AsF32(landmarks[6]), I32AsF32(landmarks[7])),
      mouth_left  |-> Vec2(I32AsF32(landmarks[8]), I32AsF32(landmarks[9])) ]

\* FaceLandmarks::from_yunet_landmark_array
from_yunet_landmark_array(landmarks) ==
    [ right_eye   |-> Vec2(I32AsF32(landmarks[0]), I32AsF32(landmarks[1])),
      left_eye    |-> Vec2(I32AsF32(landmarks[2]), I32AsF32(landmarks[3])),
      nose        |-> Vec2(I32AsF32(landmarks[4]), I32AsF32(landmarks[5])),
      mouth_right |-> Vec2(I32AsF32(landmarks[6]), I32AsF32(landmarks[7])),
      mouth_left  |-> Vec2(I32AsF32(landmarks[8]), I32AsF32(landmarks[9])) ]

\* a slip of from_yunet_bridge_face: negative sizes clamped to 0
bridge_face_clamped(face_rect, detection_dimensions) ==
    [ confidence |-> face_rect.score,
      rectangle  |-> with_size(I32AsF32(face_rect.x), I32AsF32(face_rect.y),
                               I32AsF32(IF face_rect.w < 0 THEN 0 ELSE face_rect.w),
                               I32AsF32(IF face_rect.h < 0 THEN 0 ELSE face_rect.h)),
      landmarks  |-> from_yunet_landmark_array(face_rect.lm),
      detection_dimensions |-> detection_dimensions ]

\* Face::from_yunet_bridge_face
from_yunet_bridge_face(face_rect, detection_dimensions) ==
    [ confidence |-> face_rect.score,
      rectangle  |-> with_size(I32AsF32(face_rect.x), I32AsF32(face_rect.y),
                               I32AsF32(face_rect.w), I32AsF32(face_rect.h)),
      landmarks  |-> from_yunet_landmark_array(face_rect.lm),
      detection_dimensions |-> detection_dimensions ]

\* Face::confidence
confidence(self) == self.confidence

\* Face::rectangle
rectangle(self) == self.rectangle

\* a slip of normalized_rectangle: y and h divided by the width as well
normalized_by_width(self) ==
    with_size(F32Div(self.rectangle.x, UsizeAsF32(self.detection_dimensions[1])),
              F32Div(self.rectangle.y, UsizeAsF32(self.detection_dimensions[1])),
              F32Div(self.rectangle.w, UsizeAsF32(self.detection_dimensions[1])),
              F32Div(self.rectangle.h, UsizeAsF32(self.detection_dimensions[1])))

\* Face::normalized_rectangle; detection_dimensions is the pair (.0, .1)
normalized_rectangle(self) ==
    with_size(F32Div(self.rectangle.x, UsizeAsF32(self.detection_dimensions[1])),
              F32Div(self.rectangle.y, UsizeAsF32(self.detection_dimensions[2])),
              F32Div(self.rectangle.w, UsizeAsF32(self.detection_dimensions[1])),
              F32Div(self.rectangle.h, UsizeAsF32(self.detection_dimensions[2])))

\* a slip of size: the lesser side of the rectangle in pixels
size_in_pixels(self) == F32Min(self.rectangle.w, self.rectangle.h)

\* Face::size
size(self) ==
    LET rect == normalized_rectangle(self)
    IN  F32Min(rect.w, rect.h)

\* Face::landmarks
landmarks(self) == self.landmarks

\* ------------------------------------------------------------------------
\* lib.rs: detect_faces
\* ------------------------------------------------------------------------

\* enum YuNetError
YuNetError == {"InvalidFile", "FaceDetectionFailed"}

Ok(v) == [tag |-> "Ok", value |-> v]

Err(e) == [tag |-> "Err", value |-> e]

\* the call unwinds before it returns anything
Panic(msg) == [tag |-> "Panic", value |-> msg]

\* `3 * width as i32` overflows i32: the cast binds before the product
StepOverflows(width) == MulOverflows(3, UsizeAsI32(width))

\* the arguments detect_faces hands to ffi::wrapper_detect_faces
BridgeArgs(bytes, width, height) ==
    [ rgb_image_data |-> bytes,
      width  |-> UsizeAsI32(width),
      height |-> UsizeAsI32(height),
      step   |-> WrappingMul(3, UsizeAsI32(width)) ]

\* a slip of the map: detections of negative size are left out
MapFacesDropNegative(faces, width, height) ==
    LET keep == SelectSeq(faces, LAMBDA f : f.w >= 0 /\ f.h >= 0)
    IN  [i \in 1..Len(keep) |-> from_yunet_bridge_face(keep[i], <<width, height>>)]

\* a slip of the map: the dimensions passed as (height, width)
MapFacesHeightFirst(faces, width, height) ==
    [i \in 1..Len(faces) |-> from_yunet_bridge_face(faces[i], <<height, width>>)]

\* faces.into_iter().map(|f| Face::from_yunet_bridge_face(&f, (width, height)))
MapFaces(faces, width, height) ==
    [i \in 1..Len(faces) |-> from_yunet_bridge_face(faces[i], <<width, height>>)]

\* a slip of detect_faces: no detection reported as FaceDetectionFailed
detect_faces_err_when_empty(bytes, width, height, checks, faces) ==
    IF checks /\ StepOverflows(width)
    THEN [ ffi |-> <<>>,
           result |-> Panic("attempt to multiply with overflow") ]
    ELSE [ ffi |-> <<BridgeArgs(bytes, width, height)>>,
           result |-> IF faces = <<>> THEN Err("FaceDetectionFailed")
                      ELSE Ok(MapFaces(faces, width, height)) ]

\* detect_faces, with checks the overflow checks of the build and faces what
\* the native detector returns if it is called: the calls made across the
\* bridge, and what the caller gets
detect_faces(bytes, width, height, checks, faces) ==
    IF checks /\ StepOverflows(width)
    THEN [ ffi |-> <<>>,
           result |-> Panic("attempt to multiply with overflow") ]
    ELSE [ ffi |-> <<BridgeArgs(bytes, width, height)>>,
           result |-> Ok(MapFaces(faces, width, height)) ]

\* a slip of collect: one buffer shared by all the results handed out
collect_into_shared(heap, result) == [i \in 1..(Len(heap) + 1) |-> result]

\* .collect(): the caller receives a freshly allocated Vec<Face> of its own
collect(heap, result) == Append(heap, result)

\* ------------------------------------------------------------------------
\* State
\* ------------------------------------------------------------------------

VARIABLES
    \* the build checks integer overflow (cargo's dev profile) or wraps
    overflow_checks,
    \* history: per detect_faces call, its arguments, the calls it made across
    \* the bridge, what the native detector returned, and the result as it
    \* was when the call returned
    calls,
    \* the results the callers hold now, in the order of the calls
    heap,
    \* what the last accessor call on a Face returned
    out

vars == <<overflow_checks, calls, heap, out>>

NoOut == [op |-> "none"]

\* the history entry of one detect_faces call, from its start to its return
\* or its panic; the native detector returns faces if the call reaches it
CallRecord(bytes, width, height, faces) ==
    LET r == detect_faces(bytes, width, height, overflow_checks, faces)
    IN  [ bytes |-> bytes, width |-> width, height |-> height,
          ffi |-> r.ffi,
          native |-> IF r.ffi = <<>> THEN <<>> ELSE faces,
          result |-> r.result ]

Init ==
    /\ overflow_checks \in BOOLEAN
    /\ calls = <<>>
    /\ heap = <<>>
    /\ out = NoOut

DetectFaces ==
    /\ Len(calls) < MaxCalls
    /\ \E image \in Images, faces \in NativeResults :
         LET c == CallRecord(image.bytes, image.width, image.height, faces)
         IN  /\ calls' = Append(calls, c)
             /\ heap' = collect(heap, c.result)
    /\ UNCHANGED <<overflow_checks, out>>

Next == DetectFaces

Spec == Init /\ [][Next]_vars

\* ------------------------------------------------------------------------
\* SpecFace: a caller holding the one Face of one detect_faces call
\* ------------------------------------------------------------------------

InitFace ==
    /\ overflow_checks \in BOOLEAN
    /\ out = NoOut
    /\ \E width \in FaceWidths, height \in FaceHeights, raw \in BridgeFaces :
         LET c == CallRecord("bgr_a", width, height, <<raw>>)
         IN  /\ c.result.tag = "Ok"
             /\ calls = <<c>>
             /\ heap = collect(<<>>, c.result)

\* the Face the caller holds, and the raw detection it was built from
TheFace == heap[1].value[1]

TheRaw == calls[1].native[1]

Confidence ==
    /\ out' = [op |-> "confidence", value |-> confidence(TheFace)]
    /\ UNCHANGED <<overflow_checks, calls, heap>>

Rectangle ==
    /\ out' = [op |-> "rectangle", value |-> rectangle(TheFace)]
    /\ UNCHANGED <<overflow_checks, calls, heap>>

NormalizedRectangle ==
    /\ out' = [op |-> "normalized_rectangle", value |-> normalized_rectangle(TheFace)]
    /\ UNCHANGED <<overflow_checks, calls, heap>>

Size ==
    /\ out' = [op |-> "size", value |-> size(TheFace)]
    /\ UNCHANGED <<overflow_checks, calls, heap>>

Landmarks ==
    /\ out' = [op |-> "landmarks", value |-> landmarks(TheFace)]
    /\ UNCHANGED <<overflow_checks, calls, heap>>

NextFace ==
    \/ Confidence
    \/ Rectangle
    \/ NormalizedRectangle
    \/ Size
    \/ Landmarks

SpecFace == InitFace /\ [][NextFace]_vars

\* ------------------------------------------------------------------------
\* Numbers as the claims speak of them
\* ------------------------------------------------------------------------

\* the f32 f is a number with a normal significand, or zero
F32IsFinite(f) ==
    /\ f.k = "num"
    /\ f.s \in {-1, 1}
    /\ \/ f.m = 0 /\ f.e = 0
       \/ MantissaMin <= f.m /\ f.m < MantissaEnd

\* the f32 f and the integer v are the same number
F32EqInt(f, v) ==
    /\ F32IsFinite(f)
    /\ IF f.m = 0 THEN v = 0
       ELSE IF f.e >= 0
       THEN f.e < I32_BITS /\ v % 2^f.e = 0 /\ v \div 2^f.e = f.s * f.m
       ELSE -f.e < F32_MANTISSA_DIGITS
            /\ f.m % 2^(-f.e) = 0 /\ f.s * (f.m \div 2^(-f.e)) = v

\* the f32 f is the one nearest to the integer v, the even significand of
\* the two when v lies half way
F32NearestInt(f, v) ==
    /\ F32IsFinite(f)
    /\ IF f.m = 0 \/ f.e <= 0 THEN F32EqInt(f, v)
       ELSE /\ f.e < I32_BITS
            /\ LET ulp == 2^f.e
                   q   == v \div ulp
                   r   == v % ulp
               IN  f.s * f.m = IF 2 * r < ulp THEN q
                                ELSE IF 2 * r > ulp THEN q + 1
                                ELSE IF q % 2 = 0 THEN q ELSE q + 1

\* |v| <= 2^24: every such integer is an f32
FitsF32(v) == -MantissaEnd <= v /\ v <= MantissaEnd

\* x without its factors of 2, for x > 0
RECURSIVE OddPart(_)
OddPart(x) == IF x % 2 = 0 THEN OddPart(x \div 2) ELSE x

\* the exponent of 2 in x, for x > 0
RECURSIVE TwoExp(_)
TwoExp(x) == IF x % 2 = 0 THEN 1 + TwoExp(x \div 2) ELSE 0

\* the divisor b is one whose quotients F32IsQuotient can decide: its
\* significand without its factors of 2 is below 2^7
SmallDivisor(b) ==
    b.k = "num" /\ b.m > 0 /\ OddPart(b.m) < 2^(I32_BITS - 1 - F32_MANTISSA_DIGITS)

\* the f32 q is the one nearest to a / b, for numbers a and b # 0 with
\* SmallDivisor(b): with a = sa * ma * 2^ea and b = mb * 2^eb, ma and mb
\* odd, q.m is the integer nearest to (ma / mb) * 2^k, k = ea - eb - q.e
F32IsQuotient(q, a, b) ==
    /\ F32IsFinite(q)
    /\ IF a.m = 0 THEN q.m = 0
       ELSE LET ma == OddPart(a.m)
                mb == OddPart(b.m)
                k  == (a.e + TwoExp(a.m)) - (b.e + TwoExp(b.m)) - q.e
            IN  /\ q.m > 0
                /\ q.s = a.s * b.s
                /\ k >= 0 /\ k < I32_BITS - 1
                /\ ma <= (MantissaEnd * mb) \div 2^k
                /\ LET d == q.m * mb - ma * 2^k
                   IN  2 * d <= mb /\ 2 * (-d) <= mb
                       /\ (2 * d = mb \/ 2 * (-d) = mb => q.m % 2 = 0)

\* the usize u and the integer i are the same number
UsizeEqInt(u, i) == i >= 0 /\ u = Usize(i)

\* the usize u is not 0
UsizePositive(u) == \E i \in 1..Len(u) : u[i] # 0

\* the usize u is 200, 100
Is200(u) == u = Usize(200)

Is100(u) == u = Usize(100)

\* ------------------------------------------------------------------------
\* Claims on detect_faces (Spec)
\* ------------------------------------------------------------------------

CallIds == 1..Len(calls)

\* the call reached the native detector, which returned calls[c].native
Returned(c) == calls[c].ffi # <<>>

\* C1: when the native detector returns N raw detections, detect_faces
\* returns N Faces, and Face i is the conversion of raw detection i: none
\* dropped, duplicated, filtered or reordered.
C1_OrderPreserved ==
    \A c \in CallIds :
        Returned(c) =>
            /\ heap[c].tag = "Ok"
            /\ Len(heap[c].value) = Len(calls[c].native)
            /\ \A i \in 1..Len(calls[c].native) :
                 heap[c].value[i] =
                    from_yunet_bridge_face(calls[c].native[i],
                                           <<calls[c].width, calls[c].height>>)

\* a call whose two raw detections differ, the one of negative size first
C1_Witness ==
    \E c \in CallIds :
        /\ Returned(c)
        /\ calls[c].native = <<OddFace, SampleFace>>
        /\ Len(heap[c].value) = 2

\* C2: detect_faces never returns an error: whatever the native detector
\* returns, the empty sequence included, the result is Ok of the converted
\* sequence; neither InvalidFile nor FaceDetectionFailed is produced.
C2_NeverAnError ==
    \A c \in CallIds :
        /\ heap[c].tag # "Err"
        /\ calls[c].result.tag # "Err"
        /\ Returned(c) =>
             /\ heap[c].tag = "Ok"
             /\ Len(heap[c].value) = Len(calls[c].native)
             /\ (calls[c].native = <<>> => heap[c] = Ok(<<>>))

\* a call in which the native detector found nothing
C2_Witness ==
    \E c \in CallIds :
        Returned(c) /\ calls[c].native = <<>> /\ heap[c] = Ok(<<>>)

\* C7: every Face detect_faces returns stores detection_dimensions equal to
\* (width, height) of that call, the width first.
C7_DimensionsOfTheCall ==
    \A c \in CallIds :
        heap[c].tag = "Ok" =>
            \A i \in 1..Len(heap[c].value) :
                /\ heap[c].value[i].detection_dimensions[1] = calls[c].width
                /\ heap[c].value[i].detection_dimensions[2] = calls[c].height

\* a call on an image wider than high that returned two Faces
C7_Witness ==
    \E c \in CallIds :
        /\ heap[c].tag = "Ok"
        /\ Len(heap[c].value) = 2
        /\ calls[c].width # calls[c].height

\* C8: a detect_faces call with positive width and height invokes the
\* native detector exactly once, and the stride it passes is the number
\* 3 * width, for every width.
C8_StrideIsThreeTimesWidth ==
    \A c \in CallIds :
        UsizePositive(calls[c].width) /\ UsizePositive(calls[c].height) =>
            /\ Len(calls[c].ffi) = 1
            /\ LET step == calls[c].ffi[1].step
               IN  /\ step >= 0
                   /\ step % 3 = 0
                   /\ UsizeEqInt(calls[c].width, step \div 3)

C10_DetectorAndFaceAgree ==
    \A c \in CallIds :
        heap[c].tag = "Ok" =>
            \A i \in 1..Len(heap[c].value) :
                /\ UsizeEqInt(heap[c].value[i].detection_dimensions[1],
                              calls[c].ffi[1].width)
                /\ UsizeEqInt(heap[c].value[i].detection_dimensions[2],
                              calls[c].ffi[1].height)

\* ------------------------------------------------------------------------
\* Claims on Face (SpecFace)
\* ------------------------------------------------------------------------

\* the components of a FaceLandmarks in the order of the landmark array
LandmarkComponents(l) ==
    Array10(l.right_eye.x, l.right_eye.y, l.left_eye.x, l.left_eye.y,
            l.nose.x, l.nose.y, l.mouth_right.x, l.mouth_right.y,
            l.mouth_left.x, l.mouth_left.y)

\* C3 as claimed: landmarks() holds the ten integers of the array as they
\* are, lm[0], lm[1] in right_eye and so on to lm[8], lm[9] in mouth_left.
C3_LandmarksAreTheIntegers ==
    out.op = "landmarks" =>
        \A i \in LandmarkIndex :
            F32EqInt(LandmarkComponents(out.value)[i], TheRaw.lm[i])

\* C3, amended: landmarks() holds the ten integers of the array in that
\* order, each converted to f32: the same number when |lm[i]| <= 2^24, and
\* the nearest f32 (ties to the even significand) beyond.
C3_LandmarksConverted ==
    out.op = "landmarks" =>
        \A i \in LandmarkIndex :
            /\ F32NearestInt(LandmarkComponents(out.value)[i], TheRaw.lm[i])
            /\ FitsF32(TheRaw.lm[i]) =>
                 F32EqInt(LandmarkComponents(out.value)[i], TheRaw.lm[i])

\* landmarks() of a Face whose landmarks lie outside the image
C3_Witness ==
    /\ out.op = "landmarks"
    /\ TheRaw.lm = LmOutside
    /\ F32EqInt(out.value.right_eye.x, -7)
    /\ F32EqInt(out.value.mouth_left.y, 250)

ConvertedFrom(f, v) ==
    /\ F32NearestInt(f, v)
    /\ FitsF32(v) => F32EqInt(f, v)

QuotientBy(q, a, d) ==
    /\ q = F32Div(a, UsizeAsF32(d))
    /\ SmallDivisor(UsizeAsF32(d)) => F32IsQuotient(q, a, UsizeAsF32(d))

\* C5: with detection_dimensions (W, H), W > 0 and H > 0,
\* normalized_rectangle() is (x / W, y / H, w / W, h / H) of the stored
\* rectangle; (200, 100) and (20, 10, 40, 20) give (0.1, 0.1, 0.2, 0.2);
\* the call leaves the Face as it was.
C5_NormalizedRectangle ==
    out.op = "normalized_rectangle"
    /\ UsizePositive(calls[1].width) /\ UsizePositive(calls[1].height) =>
        /\ QuotientBy(out.value.x, TheFace.rectangle.x, calls[1].width)
        /\ QuotientBy(out.value.y, TheFace.rectangle.y, calls[1].height)
        /\ QuotientBy(out.value.w, TheFace.rectangle.w, calls[1].width)
        /\ QuotientBy(out.value.h, TheFace.rectangle.h, calls[1].height)
        /\ ( /\ Is200(calls[1].width) /\ Is100(calls[1].height)
             /\ TheRaw.x = 20 /\ TheRaw.y = 10 /\ TheRaw.w = 40 /\ TheRaw.h = 20
             => out.value = with_size(F32_0_1, F32_0_1, F32_0_2, F32_0_2) )
        /\ heap[1] = calls[1].result

\* normalized_rectangle() of the rectangle (20, 10, 40, 20) in 200 x 100
C5_Witness ==
    /\ out.op = "normalized_rectangle"
    /\ Is200(calls[1].width) /\ Is100(calls[1].height)
    /\ TheRaw.x = 20 /\ TheRaw.y = 10 /\ TheRaw.w = 40 /\ TheRaw.h = 20
    /\ out.value.h = F32_0_2

\* C6: with nonzero detection_dimensions, size() is the lesser of the w
\* and h of normalized_rectangle(): at most both and equal to one of them;
\* 0.2 for (200, 100) and (20, 10, 40, 20).
C6_SizeIsLesserSide ==
    out.op = "size"
    /\ UsizePositive(calls[1].width) /\ UsizePositive(calls[1].height) =>
        LET rect == normalized_rectangle(TheFace)
        IN  /\ out.value = rect.w \/ out.value = rect.h
            /\ ~F32Lt(rect.w, out.value)
            /\ ~F32Lt(rect.h, out.value)
            /\ ( /\ Is200(calls[1].width) /\ Is100(calls[1].height)
                 /\ TheRaw.w = 40 /\ TheRaw.h = 20
                 => out.value = F32_0_2 )

\* size() where the height is the lesser side in pixels and the width the
\* lesser side of the normalized rectangle
C6_Witness ==
    /\ out.op = "size"
    /\ UsizePositive(calls[1].width) /\ UsizePositive(calls[1].height)
    /\ TheRaw.w = 40 /\ TheRaw.h = 20
    /\ out.value = normalized_rectangle(TheFace).w
    /\ F32Lt(normalized_rectangle(TheFace).w, normalized_rectangle(TheFace).h)

====
